---- MODULE Spec2Model ----
(***************************************************************************)
(* Model of add_mpc_bleed.py: the bleed geometry (calculate_bleed_pixels), *)
(* the edge extension of one image (add_bleed_border), the discovery of    *)
(* the input files (find_image_files) and the batch loop (process_images). *)
(*                                                                         *)
(* An image is a record [mode, size, px]: size = <<w, h>> and px[y][x] is  *)
(* the pixel of column x, row y (0-based, as PIL addresses them), a tuple  *)
(* of channel values.  The input folder is `disk`, a function from paths   *)
(* <<dir, name>> to file records; the output folder is `outdir`, a         *)
(* function from file names to what was written under that name.           *)
(***************************************************************************)
EXTENDS Integers, Sequences, FiniteSets, TLC

VARIABLES
    disk,          \* input folder: path -> file record
    outdir,        \* output folder: file name -> written content
    wfault,        \* environment: file name -> "none" | "denied" | "nospace"
    image_path,    \* add_bleed_border: its argument
    img,           \* add_bleed_border: the opened (then converted) image
    width, height, \* add_bleed_border / calculate_bleed_pixels: the size
    top, bottom, left, right,   \* the margins
    new_width, new_height,      \* the canvas size
    extended_img,  \* the canvas
    exc,           \* the exception in flight ("none" when there is none)
    result,        \* the value add_bleed_border returned ("none" before)
    image_files,   \* process_images: the list of paths
    i,             \* process_images: number of paths attempted so far
    processed, failed,          \* process_images: the two counters
    stdout,        \* what was printed: progress and error lines
    pc             \* position in the code

vars == <<disk, outdir, wfault, image_path, img, width, height, top, bottom,
          left, right, new_width, new_height, extended_img, exc, result,
          image_files, i, processed, failed, stdout, pc>>

fsVars    == <<disk, outdir, wfault>>
sizeVars  == <<width, height>>
marginVars == <<top, bottom, left, right>>
canvasVars == <<new_width, new_height, extended_img>>
batchVars == <<image_files, i, processed, failed>>

----------------------------------------------------------------------------
(* Bounds of the model.                                                    *)

\* Sizes 1..SmallDim are the degenerate images (a single row or column).
SmallDim == 2
\* Largest image width and height of the pixel-level model.
MaxW == 22
MaxH == 30
\* Largest width or height the margin calculation is applied to.
MaxDim == 1050
\* Largest number of files in the input folder of a batch.
MaxFiles == 2

----------------------------------------------------------------------------
(* calculate_bleed_pixels                                                  *)

\* The two percentages, in hundredths of a percent (4.84 and 3.47).
WIDTH_BLEED_PERCENT == 484
HEIGHT_BLEED_PERCENT == 347

\* int((n * percent) / 100): int() truncates toward zero, which for the
\* non-negative values here is the integer quotient.  The source computes
\* the product and the quotient in binary floating point; the quotient is
\* integral only when n * percent is a multiple of 10000, and there the
\* double product is exact, so the truncation of the double equals the
\* truncation of the exact rational (compared for every n up to 2,000,000).
BleedRounded(n, percent) == (n * percent + 5000) \div 10000
BleedPerSide(n, percent) == (n * percent) \div 10000

\* Returns <<top, bottom, left, right>>.
calculate_bleed_pixels(w, h) ==
    LET horizontal_bleed_per_side == BleedPerSide(w, WIDTH_BLEED_PERCENT)
        vertical_bleed_per_side == BleedPerSide(h, HEIGHT_BLEED_PERCENT)
    IN  <<vertical_bleed_per_side, vertical_bleed_per_side,
          horizontal_bleed_per_side, horizontal_bleed_per_side>>

----------------------------------------------------------------------------
(* The image operations add_bleed_border uses.                             *)

Black == <<0, 0, 0>>
NoImage == [mode |-> "none", size |-> <<0, 0>>, px |-> <<>>]

W(im) == im.size[1]
H(im) == im.size[2]

\* Image.new('RGB', (w, h)): every pixel is the default colour 0, black.
ImageNew(w, h) ==
    [mode |-> "RGB", size |-> <<w, h>>,
     px |-> [y \in 0..(h - 1) |-> [x \in 0..(w - 1) |-> Black]]]

\* canvas.paste(im, (x0, y0)): the pixels of im replace those of the canvas
\* in the box of im's size at (x0, y0), clipped to the canvas.
Paste(canvas, im, x0, y0) ==
    [canvas EXCEPT !.px =
        [y \in 0..(H(canvas) - 1) |-> [x \in 0..(W(canvas) - 1) |->
            IF /\ x0 <= x /\ x < x0 + W(im)
               /\ y0 <= y /\ y < y0 + H(im)
            THEN im.px[y - y0][x - x0]
            ELSE canvas.px[y][x]]]]

\* im.crop((x0, y0, x1, y1)): a new image of size (x1 - x0, y1 - y0); what
\* lies outside im is black.
Crop(im, x0, y0, x1, y1) ==
    [mode |-> im.mode, size |-> <<x1 - x0, y1 - y0>>,
     px |-> [y \in 0..(y1 - y0 - 1) |-> [x \in 0..(x1 - x0 - 1) |->
            IF /\ 0 <= x0 + x /\ x0 + x < W(im)
               /\ 0 <= y0 + y /\ y0 + y < H(im)
            THEN im.px[y0 + y][x0 + x]
            ELSE Black]]]

\* One pixel of img.convert('RGB'): an alpha channel is dropped, a grey
\* level is repeated on the three channels.
ConvertPixel(mode, p) ==
    CASE mode = "RGB"  -> p
      [] mode = "RGBA" -> <<p[1], p[2], p[3]>>
      [] mode = "L"    -> <<p[1], p[1], p[1]>>

\* if img.mode != 'RGB': img = img.convert('RGB')
ConvertKeepsMode(im) == im
ConvertRGB(im) ==
    IF im.mode /= "RGB"
    THEN [mode |-> "RGB", size |-> im.size,
          px |-> [y \in 0..(H(im) - 1) |-> [x \in 0..(W(im) - 1) |->
                    ConvertPixel(im.mode, im.px[y][x])]]]
    ELSE im

\* for y in range(y, stop): canvas.paste(edge, (x, y))
RECURSIVE PasteRows(_, _, _, _, _)
PasteRows(canvas, edge, x, y, stop) ==
    IF y >= stop THEN canvas
    ELSE PasteRows(Paste(canvas, edge, x, y), edge, x, y + 1, stop)

\* for x in range(x, stop): canvas.paste(edge, (x, y))
RECURSIVE PasteCols(_, _, _, _, _)
PasteCols(canvas, edge, x, stop, y) ==
    IF x >= stop THEN canvas
    ELSE PasteCols(Paste(canvas, edge, x, y), edge, x + 1, stop, y)

----------------------------------------------------------------------------
(* The fill steps of add_bleed_border.  m is <<top, bottom, left, right>>, *)
(* im the converted source, canvas the image being extended.               *)

\* new_width = width + left + right; new_height = height + top + bottom
NewSizeNoFarSide(im, m) == <<W(im) + m[3], H(im) + m[1]>>
NewSize(im, m) == <<W(im) + m[3] + m[4], H(im) + m[1] + m[2]>>

\* extended_img.paste(img, (left, top))
PasteOriginalAtOrigin(canvas, im, m) == Paste(canvas, im, 0, 0)
PasteOriginalStep(canvas, im, m) == Paste(canvas, im, m[3], m[1])

\* if top > 0: top_edge = img.crop((0, 0, width, 1));
\*             for y in range(top): extended_img.paste(top_edge, (left, y))
FillTopStep(canvas, im, m) ==
    IF m[1] > 0
    THEN PasteRows(canvas, Crop(im, 0, 0, W(im), 1), m[3], 0, m[1])
    ELSE canvas

\* if bottom > 0: bottom_edge = img.crop((0, height - 1, width, height));
\*     for y in range(top + height, new_height): paste(bottom_edge, (left, y))
FillBottomFirstRow(canvas, im, m) ==
    IF m[2] > 0
    THEN PasteRows(canvas, Crop(im, 0, 0, W(im), 1),
                   m[3], m[1] + H(im), H(canvas))
    ELSE canvas
FillBottomStep(canvas, im, m) ==
    IF m[2] > 0
    THEN PasteRows(canvas, Crop(im, 0, H(im) - 1, W(im), H(im)),
                   m[3], m[1] + H(im), H(canvas))
    ELSE canvas

\* The canvas column the left strip replicates: left.
LeftEdgeColumn(im, m) == m[3]

\* The canvas column the right strip replicates: left + width - 1.
RightEdgeFirstColumn(im, m) == 0
RightEdgeColumn(im, m) == m[3] + W(im) - 1

\* if left > 0: left_edge = extended_img.crop((left, 0, left + 1, new_height))
\*              for x in range(left): extended_img.paste(left_edge, (x, 0))
FillLeftFromSource(canvas, im, m) ==
    IF m[3] > 0
    THEN PasteCols(canvas, Crop(im, 0, 0, 1, H(im)), 0, m[3], m[1])
    ELSE canvas
FillLeftStep(canvas, im, m) ==
    IF m[3] > 0
    THEN PasteCols(canvas,
                   Crop(canvas, LeftEdgeColumn(im, m), 0,
                        LeftEdgeColumn(im, m) + 1, H(canvas)),
                   0, m[3], 0)
    ELSE canvas

\* if right > 0: right_edge = extended_img.crop(
\*                   (left + width - 1, 0, left + width, new_height))
\*     for x in range(left + width, new_width): paste(right_edge, (x, 0))
FillRightStopsEarly(canvas, im, m) ==
    IF m[4] > 0
    THEN PasteCols(canvas,
                   Crop(canvas, RightEdgeColumn(im, m), 0,
                        RightEdgeColumn(im, m) + 1, H(canvas)),
                   m[3] + W(im), W(canvas) - 1, 0)
    ELSE canvas
FillRightStep(canvas, im, m) ==
    IF m[4] > 0
    THEN PasteCols(canvas,
                   Crop(canvas, RightEdgeColumn(im, m), 0,
                        RightEdgeColumn(im, m) + 1, H(canvas)),
                   m[3] + W(im), W(canvas), 0)
    ELSE canvas

\* The order in which add_bleed_border runs the fill steps.
FillOrderSidesFirst == <<"paste", "left", "right", "top", "bottom">>
FillOrder == <<"paste", "top", "bottom", "left", "right">>

FillStep(step, canvas, im, m) ==
    CASE step = "paste"  -> PasteOriginalStep(canvas, im, m)
      [] step = "top"    -> FillTopStep(canvas, im, m)
      [] step = "bottom" -> FillBottomStep(canvas, im, m)
      [] step = "left"   -> FillLeftStep(canvas, im, m)
      [] step = "right"  -> FillRightStep(canvas, im, m)

\* The step after `step`: the next fill, or the save after the last one.
After(step) ==
    LET k == CHOOSE n \in 1..Len(FillOrder) : FillOrder[n] = step
    IN  IF k < Len(FillOrder) THEN FillOrder[k + 1] ELSE "save"

\* The canvas after the fill steps k.. of FillOrder, in order.
RECURSIVE RunFills(_, _, _, _)
RunFills(canvas, im, m, k) ==
    IF k > Len(FillOrder) THEN canvas
    ELSE RunFills(FillStep(FillOrder[k], canvas, im, m), im, m, k + 1)

\* The canvas add_bleed_border saves for the decoded image im0.
Extend(im0) ==
    LET im == ConvertRGB(im0)
        m  == calculate_bleed_pixels(W(im), H(im))
        sz == NewSize(im, m)
    IN  RunFills(ImageNew(sz[1], sz[2]), im, m, 1)

----------------------------------------------------------------------------
(* Files, and the ways opening, decoding and saving fail.                  *)

NoFile == [kind |-> "none", im |-> NoImage]
InvalidFile == [kind |-> "invalid", im |-> NoImage]
\* A file that was in the output folder before the run.
OldOutput == [kind |-> "old", im |-> NoImage]
PartialOutput == [kind |-> "partial", im |-> NoImage]
NoFiles == [p \in {} |-> NoFile]

Name(path) == path[2]

\* Image.open(image_path): the exception it raises, "none" when it opens.
OpenError(path, d) ==
    IF path \notin DOMAIN d THEN "FileNotFoundError"
    ELSE IF d[path].kind = "invalid" THEN "UnidentifiedImageError"
    ELSE "none"

\* Image.open reads the header only; the pixel data is decoded by the first
\* operation that needs it: convert() when the mode is not RGB, else the
\* paste of the image into the canvas.  A truncated file fails there.
DecodeError(file, step) ==
    IF /\ file.kind = "truncated"
       /\ \/ step = "convert" /\ file.im.mode /= "RGB"
          \/ step = "paste"
    THEN "OSError"
    ELSE "none"

\* extended_img.save(output_path, ...): the exception it raises.
SaveError(name, wf) ==
    CASE wf[name] = "denied"  -> "PermissionError"
      [] wf[name] = "nospace" -> "OSError"
      [] OTHER                -> "none"

\* The output folder after a successful save.
Written(o, name, canvas) ==
    [n \in DOMAIN o \cup {name} |->
        IF n = name THEN [kind |-> "image", im |-> canvas] ELSE o[n]]

\* The output folder after a failed save: an existing file that could be
\* opened for writing is left partly written; a file the save created is
\* removed again; a file that could not be opened is untouched.
FailedWrite(o, name, fault) ==
    IF fault = "nospace" /\ name \in DOMAIN o
    THEN [o EXCEPT ![name] = PartialOutput]
    ELSE o

\* The classes derived from Exception, which `except Exception` catches.
ExceptionClasses ==
    {"FileNotFoundError", "UnidentifiedImageError", "OSError",
     "PermissionError"}
CatchesOnlyMissingFile(e) == e = "FileNotFoundError"
Catches(e) == e \in ExceptionClasses

----------------------------------------------------------------------------
(* The input images of the pixel-level model.                              *)

\* Every pixel has its own colour, none of them black.
GridImage(w, h) ==
    [mode |-> "RGB", size |-> <<w, h>>,
     px |-> [y \in 0..(h - 1) |-> [x \in 0..(w - 1) |-> <<x + 1, y + 1, 0>>]]]

\* The image of test_add_bleed_border_basic: red, with a blue top row, a
\* green bottom row, then a yellow left column and a magenta right column.
TestCardImage(w, h) ==
    [mode |-> "RGB", size |-> <<w, h>>,
     px |-> [y \in 0..(h - 1) |-> [x \in 0..(w - 1) |->
        IF x = w - 1 THEN <<255, 0, 255>>
        ELSE IF x = 0 THEN <<255, 255, 0>>
        ELSE IF y = h - 1 THEN <<0, 255, 0>>
        ELSE IF y = 0 THEN <<0, 0, 255>>
        ELSE <<255, 0, 0>>]]]

\* An image with an alpha channel, every pixel its own colour.
AlphaImage(w, h) ==
    [mode |-> "RGBA", size |-> <<w, h>>,
     px |-> [y \in 0..(h - 1) |-> [x \in 0..(w - 1) |->
                <<y + 1, x + 1, 255, 128>>]]]

\* A greyscale image; its pixel (0, 0) is black.
GreyImage(w, h) ==
    [mode |-> "L", size |-> <<w, h>>,
     px |-> [y \in 0..(h - 1) |-> [x \in 0..(w - 1) |-> <<(x + 2 * y) % 256>>]]]

SourceImages(w, h) ==
    {GridImage(w, h), TestCardImage(w, h), AlphaImage(w, h), GreyImage(w, h)}

\* The degenerate sizes, and the sizes at and above which a margin appears.
Widths ==
    {w \in 1..MaxW : w <= SmallDim \/ BleedPerSide(w + 1, WIDTH_BLEED_PERCENT) > 0}
Heights ==
    {h \in 1..MaxH : h <= SmallDim \/ BleedPerSide(h + 1, HEIGHT_BLEED_PERCENT) > 0}
\* One size whose margins are two pixels wide.
LargeSizes == {<<42, 58>>}
Sizes == (Widths \X Heights) \cup LargeSizes

\* The input of test_add_bleed_border_basic.
TestInput == TestCardImage(100, 140)

InputFiles ==
    {[kind |-> "image", im |-> im] :
        im \in UNION {SourceImages(sz[1], sz[2]) : sz \in Sizes}}
    \cup {[kind |-> "image", im |-> TestInput]}
    \cup {[kind |-> "truncated", im |-> im] :
        im \in SourceImages(SmallDim, SmallDim)}
    \cup {InvalidFile}

\* A path is <<directory, name>>, a name <<stem, suffix>>.
CardPath == <<"cards", <<"card", ".png">>>>

----------------------------------------------------------------------------
(* add_bleed_border, step by step, on one input path.                      *)

margins == <<top, bottom, left, right>>

frameNull ==
    /\ img = NoImage
    /\ width = 0 /\ height = 0
    /\ top = 0 /\ bottom = 0 /\ left = 0 /\ right = 0
    /\ new_width = 0 /\ new_height = 0
    /\ extended_img = NoImage
    /\ exc = "none"
    /\ result = "none"

Init ==
    /\ image_path = CardPath
    /\ disk \in {NoFiles} \cup {[p \in {CardPath} |-> f] : f \in InputFiles}
    /\ outdir \in {[n \in {} |-> NoFile],
                   [n \in {Name(CardPath)} |-> OldOutput]}
    /\ wfault \in [{Name(CardPath)} -> {"none", "denied", "nospace"}]
    /\ frameNull
    /\ image_files = <<>> /\ i = 0 /\ processed = 0 /\ failed = 0
    /\ stdout = <<>>
    /\ pc = "open"

\* An exception leaves the try block for the except clause.
Raise(e) ==
    /\ exc' = e
    /\ pc' = "except"

\* with Image.open(image_path) as img:
OpenImage ==
    /\ pc = "open"
    /\ OpenError(image_path, disk) = "none"
    /\ img' = disk[image_path].im
    /\ pc' = "convert"
    /\ UNCHANGED <<fsVars, image_path, sizeVars, marginVars, canvasVars,
                   exc, result, batchVars, stdout>>

OpenFails ==
    /\ pc = "open"
    /\ OpenError(image_path, disk) /= "none"
    /\ Raise(OpenError(image_path, disk))
    /\ UNCHANGED <<fsVars, image_path, img, sizeVars, marginVars, canvasVars,
                   result, batchVars, stdout>>

\* if img.mode != 'RGB': img = img.convert('RGB')
ConvertImage ==
    /\ pc = "convert"
    /\ DecodeError(disk[image_path], "convert") = "none"
    /\ img' = ConvertRGB(img)
    /\ pc' = "new"
    /\ UNCHANGED <<fsVars, image_path, sizeVars, marginVars, canvasVars,
                   exc, result, batchVars, stdout>>

ConvertFails ==
    /\ pc = "convert"
    /\ DecodeError(disk[image_path], "convert") /= "none"
    /\ Raise(DecodeError(disk[image_path], "convert"))
    /\ UNCHANGED <<fsVars, image_path, img, sizeVars, marginVars, canvasVars,
                   result, batchVars, stdout>>

\* width, height = img.size; the margins; the new size; Image.new
NewCanvas ==
    /\ pc = "new"
    /\ width' = W(img)
    /\ height' = H(img)
    /\ LET m == calculate_bleed_pixels(W(img), H(img))
           sz == NewSize(img, m)
       IN  /\ top' = m[1] /\ bottom' = m[2] /\ left' = m[3] /\ right' = m[4]
           /\ new_width' = sz[1]
           /\ new_height' = sz[2]
           /\ extended_img' = ImageNew(sz[1], sz[2])
    /\ pc' = FillOrder[1]
    /\ UNCHANGED <<fsVars, image_path, img, exc, result, batchVars, stdout>>

\* One fill step: the canvas changes, nothing else does.
FillReusingImg(step) ==
    /\ pc = step
    /\ extended_img' = FillStep(step, extended_img, img, margins)
    /\ img' = IF step = "top" /\ top > 0
              THEN Crop(img, 0, 0, W(img), 1)
              ELSE img
    /\ pc' = After(step)
    /\ UNCHANGED <<fsVars, image_path, sizeVars, marginVars,
                   new_width, new_height, exc, result, batchVars, stdout>>
Fill(step) ==
    /\ pc = step
    /\ extended_img' = FillStep(step, extended_img, img, margins)
    /\ pc' = After(step)
    /\ UNCHANGED <<fsVars, image_path, img, sizeVars, marginVars,
                   new_width, new_height, exc, result, batchVars, stdout>>

PasteOriginal ==
    /\ pc = "paste"
    /\ DecodeError(disk[image_path], "paste") = "none"
    /\ Fill("paste")

PasteFails ==
    /\ pc = "paste"
    /\ DecodeError(disk[image_path], "paste") /= "none"
    /\ Raise(DecodeError(disk[image_path], "paste"))
    /\ UNCHANGED <<fsVars, image_path, img, sizeVars, marginVars, canvasVars,
                   result, batchVars, stdout>>

FillTop ==
    /\ pc = "top"
    /\ Fill("top")

FillBottom ==
    /\ pc = "bottom"
    /\ Fill("bottom")

FillLeft ==
    /\ pc = "left"
    /\ Fill("left")

FillRight ==
    /\ pc = "right"
    /\ Fill("right")

\* output_path = output_folder / image_path.name; extended_img.save(...);
\* return True
SaveImage ==
    /\ pc = "save"
    /\ SaveError(Name(image_path), wfault) = "none"
    /\ outdir' = Written(outdir, Name(image_path), extended_img)
    /\ result' = "True"
    /\ pc' = "done"
    /\ UNCHANGED <<disk, wfault, image_path, img, sizeVars, marginVars,
                   canvasVars, exc, batchVars, stdout>>

SaveFails ==
    /\ pc = "save"
    /\ SaveError(Name(image_path), wfault) /= "none"
    /\ outdir' = FailedWrite(outdir, Name(image_path), wfault[Name(image_path)])
    /\ Raise(SaveError(Name(image_path), wfault))
    /\ UNCHANGED <<disk, wfault, image_path, img, sizeVars, marginVars,
                   canvasVars, result, batchVars, stdout>>

\* except Exception as e: print(...); return False
HandleException ==
    /\ pc = "except"
    /\ IF Catches(exc)
       THEN /\ stdout' = Append(stdout, <<"error", Name(image_path)>>)
            /\ result' = "False"
            /\ exc' = "none"
            /\ pc' = "done"
       ELSE /\ pc' = "propagated"
            /\ UNCHANGED <<stdout, result, exc>>
    /\ UNCHANGED <<fsVars, image_path, img, sizeVars, marginVars, canvasVars,
                   batchVars>>

Next ==
    \/ OpenImage
    \/ OpenFails
    \/ ConvertImage
    \/ ConvertFails
    \/ NewCanvas
    \/ PasteOriginal
    \/ PasteFails
    \/ FillTop
    \/ FillBottom
    \/ FillLeft
    \/ FillRight
    \/ SaveImage
    \/ SaveFails
    \/ HandleException

Spec == Init /\ [][Next]_vars

----------------------------------------------------------------------------
(* calculate_bleed_pixels on its own: the sizes of the repository's tests  *)
(* crossed with every dimension up to MaxDim.                              *)

TestWidths == {1, 100, 750}
TestHeights == {1, 140, 1050}
CalcInputs ==
    (TestWidths \X (1..MaxDim)) \cup ((1..MaxDim) \X TestHeights)

InitCalc ==
    /\ \E sz \in CalcInputs : width = sz[1] /\ height = sz[2]
    /\ top = 0 /\ bottom = 0 /\ left = 0 /\ right = 0
    /\ disk = NoFiles /\ outdir = NoFiles /\ wfault = NoFiles
    /\ image_path = CardPath
    /\ img = NoImage /\ extended_img = NoImage
    /\ new_width = 0 /\ new_height = 0
    /\ exc = "none" /\ result = "none"
    /\ image_files = <<>> /\ i = 0 /\ processed = 0 /\ failed = 0
    /\ stdout = <<>>
    /\ pc = "calc"

\* top, bottom, left, right = calculate_bleed_pixels(width, height)
Calculate ==
    /\ pc = "calc"
    /\ LET m == calculate_bleed_pixels(width, height)
       IN  top' = m[1] /\ bottom' = m[2] /\ left' = m[3] /\ right' = m[4]
    /\ pc' = "returned"
    /\ UNCHANGED <<fsVars, image_path, img, sizeVars, canvasVars, exc, result,
                   batchVars, stdout>>

NextCalc == Calculate

SpecCalc == InitCalc /\ [][NextCalc]_vars

----------------------------------------------------------------------------
(* find_image_files and process_images.  add_bleed_border is one step of   *)
(* the loop here: a call returns before the next one starts.               *)

\* The exception the decoding steps of a call raise, "none" when they succeed.
Decoded(path, d) ==
    IF OpenError(path, d) /= "none" THEN OpenError(path, d)
    ELSE IF DecodeError(d[path], "convert") /= "none"
         THEN DecodeError(d[path], "convert")
         ELSE DecodeError(d[path], "paste")

\* The value a call returns: True, or False when the except clause caught
\* what was raised.
ReturnedUncaught(raised) == IF raised = "none" THEN "True" ELSE "propagated"
Returned(raised) ==
    IF raised = "none" THEN "True"
    ELSE IF Catches(raised) THEN "False" ELSE "propagated"

\* What one call of add_bleed_border does: the first failing operation
\* raises, the except clause turns the exception into False.
AddBleedBorder(path, d, o, wf) ==
    LET decoded == Decoded(path, d)
        raised ==
            IF decoded /= "none" THEN decoded ELSE SaveError(Name(path), wf)
    IN  [raised |-> raised,
         result |-> Returned(raised),
         outdir |-> IF decoded /= "none" THEN o
                    ELSE IF raised = "none"
                         THEN Written(o, Name(path), Extend(d[path].im))
                         ELSE FailedWrite(o, Name(path), wf[Name(path)])]

image_extensions ==
    {".jpg", ".jpeg", ".png", ".bmp", ".tiff", ".tif", ".webp"}

\* file_path.suffix.lower()
Lower(suffix) ==
    CASE suffix = ".JPG" -> ".jpg"
      [] suffix = ".PNG" -> ".png"
      [] OTHER -> suffix

\* file_path.is_file() and file_path.suffix.lower() in image_extensions
IsImageFile(path, d) ==
    /\ d[path].kind /= "directory"
    /\ Lower(Name(path)[2]) \in image_extensions

\* The orders in which rglob can yield the paths of S.
Orderings(S) ==
    {s \in [1..Cardinality(S) -> S] :
        \A a, b \in 1..Cardinality(S) : a /= b => s[a] /= s[b]}

Dirs == {"cards", "cards/sub"}
FileNames == {<<"a", ".png">>, <<"b", ".JPG">>, <<"notes", ".txt">>}
Paths == Dirs \X FileNames
ImageNames == {n \in FileNames : Lower(n[2]) \in image_extensions}

BatchFiles ==
    {[kind |-> "image", im |-> GridImage(1, 1)],
     [kind |-> "image", im |-> AlphaImage(2, 1)],
     InvalidFile,
     [kind |-> "directory", im |-> NoImage]}

InputFolders ==
    UNION {[S -> BatchFiles] :
             S \in {T \in SUBSET Paths : Cardinality(T) <= MaxFiles}}

InitBatch ==
    /\ disk \in InputFolders
    /\ outdir = NoFiles
    /\ wfault \in [ImageNames -> {"none", "denied", "nospace"}]
    /\ image_path = CardPath
    /\ frameNull
    /\ image_files = <<>> /\ i = 0 /\ processed = 0 /\ failed = 0
    /\ stdout = <<>>
    /\ pc = "scan"

\* image_files = find_image_files(input_folder)
FindImageFiles ==
    /\ pc = "scan"
    /\ image_files' \in Orderings({p \in DOMAIN disk : IsImageFile(p, disk)})
    /\ pc' = "loop"
    /\ UNCHANGED <<fsVars, image_path, img, sizeVars, marginVars, canvasVars,
                   exc, result, i, processed, failed, stdout>>

\* One iteration of the loop of process_images: the progress line, the call
\* (whose except clause prints the error line), and the counter the returned
\* value selects.  An exception the call did not catch would end the loop.
Iteration(succeeds) ==
    /\ i < Len(image_files)
    /\ LET path == image_files[i + 1]
           r == AddBleedBorder(path, disk, outdir, wfault)
       IN  /\ (r.result = "True") = succeeds
           /\ image_path' = path
           /\ result' = r.result
           /\ outdir' = r.outdir
           /\ i' = i + 1
           /\ IF r.result = "True"
              THEN /\ stdout' = Append(stdout, <<"progress", Name(path)>>)
                   /\ processed' = processed + 1
                   /\ UNCHANGED <<failed, exc, pc>>
              ELSE IF r.result = "False"
              THEN /\ stdout' = stdout \o <<<<"progress", Name(path)>>,
                                            <<"error", Name(path)>>>>
                   /\ failed' = failed + 1
                   /\ UNCHANGED <<processed, exc, pc>>
              ELSE /\ stdout' = Append(stdout, <<"progress", Name(path)>>)
                   /\ exc' = r.raised
                   /\ pc' = "propagated"
                   /\ UNCHANGED <<processed, failed>>
    /\ UNCHANGED <<disk, wfault, img, sizeVars, marginVars, canvasVars,
                   image_files>>

\* if add_bleed_border(image_path, output_folder): processed += 1
ImageProcessed ==
    /\ pc = "loop"
    /\ Iteration(TRUE)

\* else: failed += 1
ImageFailed ==
    /\ pc = "loop"
    /\ Iteration(FALSE)

\* The loop is over: the summary is printed.
Finish ==
    /\ pc = "loop"
    /\ i >= Len(image_files)
    /\ pc' = "done"
    /\ UNCHANGED <<fsVars, image_path, img, sizeVars, marginVars, canvasVars,
                   exc, result, batchVars, stdout>>

NextBatch ==
    \/ FindImageFiles
    \/ ImageProcessed
    \/ ImageFailed
    \/ Finish

SpecBatch == InitBatch /\ [][NextBatch]_vars

----------------------------------------------------------------------------
(* Properties.                                                             *)

\* The pixel (x, y) of the source file after the conversion to 3 channels.
SourcePixel(x, y) ==
    LET src == disk[image_path].im
    IN  CASE src.mode = "RGB"  -> src.px[y][x]
          [] src.mode = "RGBA" -> <<src.px[y][x][1], src.px[y][x][2],
                                    src.px[y][x][3]>>
          [] src.mode = "L"    -> <<src.px[y][x][1], src.px[y][x][1],
                                    src.px[y][x][1]>>
SourceW == disk[image_path].im.size[1]
SourceH == disk[image_path].im.size[2]
Canvas(x, y) == extended_img.px[y][x]

\* C1: for positive width and height, calculate_bleed_pixels returns
\* (v, v, h, h) with h = floor(width * 4.84 / 100) and
\* v = floor(height * 3.47 / 100): h is the one integer with
\* 100 h <= 4.84 width < 100 (h + 1), and likewise v; (750, 1050) gives
\* 36 on every side and (100, 140) gives 4 on every side.
C1_MarginsAreTruncatedPercentages ==
    pc = "returned" =>
        /\ top = bottom
        /\ left = right
        /\ left >= 0 /\ top >= 0
        /\ left * 10000 <= width * 484 /\ width * 484 < (left + 1) * 10000
        /\ top * 10000 <= height * 347 /\ height * 347 < (top + 1) * 10000
        /\ (width = 750 /\ height = 1050
                => <<top, bottom, left, right>> = <<36, 36, 36, 36>>)
        /\ (width = 100 /\ height = 140
                => <<top, bottom, left, right>> = <<4, 4, 4, 4>>)

C1_Witness ==
    /\ pc = "returned"
    /\ width = 100 /\ height = 140
    /\ <<top, bottom, left, right>> = <<4, 4, 4, 4>>

\* C2: the canvas saved for a decoded source of size (w, h) has width
\* w + left + right and height h + top + bottom, the margins being those
\* calculate_bleed_pixels gives for (w, h); a 100x140 source gives 108x148.
C2_SavedCanvasSize ==
    \A n \in DOMAIN outdir :
        outdir[n].kind = "image" =>
            LET out == outdir[n].im
                m == calculate_bleed_pixels(SourceW, SourceH)
            IN  /\ W(out) = SourceW + m[3] + m[4]
                /\ H(out) = SourceH + m[1] + m[2]
                /\ DOMAIN out.px = 0..(SourceH + m[1] + m[2] - 1)
                /\ \A y \in DOMAIN out.px :
                       DOMAIN out.px[y] = 0..(SourceW + m[3] + m[4] - 1)
                /\ (SourceW = 100 /\ SourceH = 140 => out.size = <<108, 148>>)

C2_Witness ==
    /\ pc = "done"
    /\ result = "True"
    /\ SourceW = 100 /\ SourceH = 140
    /\ Name(image_path) \in DOMAIN outdir
    /\ outdir[Name(image_path)].kind = "image"
    /\ outdir[Name(image_path)].im.size = <<108, 148>>

\* The original has been pasted: a strip fill is next, or the save.
Pasted == pc \in {"top", "bottom", "left", "right", "save"}

\* C3: once the source is pasted, and after every strip fill up to the
\* save, the canvas region of size (w, h) at (left, top) equals the
\* converted source pixel for pixel: no strip fill overwrites it.
C3_CenterPreserved ==
    Pasted =>
        \A y \in 0..(SourceH - 1) : \A x \in 0..(SourceW - 1) :
            Canvas(left + x, top + y) = SourcePixel(x, y)

C3_Witness ==
    /\ pc = "save"
    /\ top > 0 /\ left > 0
    /\ Canvas(0, 0) /= Black
    /\ Canvas(left, top) = SourcePixel(0, 0)
    /\ Canvas(left + SourceW - 1, top + SourceH - 1)
           = SourcePixel(SourceW - 1, SourceH - 1)

\* C4: in the final canvas the top strip repeats the source's first row and
\* the bottom strip its last row, column by column; the left strip repeats
\* the canvas column `left` and the right strip the canvas column
\* left + w - 1, row by row over all canvas rows.
C4_EdgeReplication ==
    pc = "save" =>
        /\ \A y \in 0..(top - 1) : \A x \in 0..(SourceW - 1) :
               Canvas(left + x, y) = SourcePixel(x, 0)
        /\ \A y \in (top + SourceH)..(new_height - 1) :
               \A x \in 0..(SourceW - 1) :
                   Canvas(left + x, y) = SourcePixel(x, SourceH - 1)
        /\ \A y \in 0..(new_height - 1) : \A x \in 0..(left - 1) :
               Canvas(x, y) = Canvas(left, y)
        /\ \A y \in 0..(new_height - 1) :
               \A x \in (left + SourceW)..(new_width - 1) :
                   Canvas(x, y) = Canvas(left + SourceW - 1, y)

\* The scenario of test_add_bleed_border_basic.
C4_Witness ==
    /\ pc = "save"
    /\ img = TestInput
    /\ extended_img.size = <<108, 148>>
    /\ Canvas(2, 50) = <<255, 255, 0>>
    /\ Canvas(105, 50) = <<255, 0, 255>>
    /\ Canvas(50, 2) = <<0, 0, 255>>
    /\ Canvas(50, 146) = <<0, 255, 0>>

\* C5: in the final canvas each corner rectangle of the margin has the one
\* colour of the source's corner pixel on that corner.
C5_CornersUniform ==
    pc = "save" =>
        /\ \A y \in 0..(top - 1) : \A x \in 0..(left - 1) :
               Canvas(x, y) = SourcePixel(0, 0)
        /\ \A y \in 0..(top - 1) : \A x \in (left + SourceW)..(new_width - 1) :
               Canvas(x, y) = SourcePixel(SourceW - 1, 0)
        /\ \A y \in (top + SourceH)..(new_height - 1) : \A x \in 0..(left - 1) :
               Canvas(x, y) = SourcePixel(0, SourceH - 1)
        /\ \A y \in (top + SourceH)..(new_height - 1) :
               \A x \in (left + SourceW)..(new_width - 1) :
                   Canvas(x, y) = SourcePixel(SourceW - 1, SourceH - 1)

\* A canvas whose corner rectangles are 2 x 2, each of its own colour.
C5_Witness ==
    /\ pc = "save"
    /\ top = 2 /\ left = 2 /\ bottom = 2 /\ right = 2
    /\ Canvas(1, 1) = SourcePixel(0, 0)
    /\ Canvas(new_width - 1, new_height - 1)
           = SourcePixel(SourceW - 1, SourceH - 1)
    /\ Canvas(1, 1) /= Canvas(new_width - 1, 0)
    /\ Canvas(1, 1) /= Black

\* The top and bottom strips hold the source's first and last row.
TopBottomFilled ==
    /\ \A y \in 0..(top - 1) : \A x \in 0..(SourceW - 1) :
           Canvas(left + x, y) = SourcePixel(x, 0)
    /\ \A y \in (top + SourceH)..(new_height - 1) : \A x \in 0..(SourceW - 1) :
           Canvas(left + x, y) = SourcePixel(x, SourceH - 1)

C9_Step ==
    /\ pc = "paste"  => pc' \in {"top", "except"}
    /\ pc = "top"    => pc' = "bottom"
    /\ pc = "bottom" => pc' = "left"
    /\ pc = "left"   => pc' = "right"
    /\ pc = "right"  => pc' = "save"
    /\ pc \in {"left", "right"} => TopBottomFilled
    /\ pc = "left" =>
           \A y \in 0..(new_height - 1) : \A x \in 0..(left - 1) :
               extended_img'.px[y][x] = extended_img.px[y][left]
    /\ pc = "right" =>
           \A y \in 0..(new_height - 1) :
               \A x \in (left + width)..(new_width - 1) :
                   extended_img'.px[y][x] = extended_img.px[y][left + width - 1]

\* C9: the fills run in the order paste, top, bottom, left, right; when the
\* left or the right fill starts the top and bottom strips are complete,
\* and each of the two writes, in every canvas row 0..new_height-1, the
\* pixel the canvas held at column left (resp. left + w - 1) of that row
\* when the fill started.
C9_FillOrder == [][C9_Step]_vars

C9_Witness ==
    /\ pc = "right"
    /\ top > 0 /\ left > 0 /\ right > 0
    /\ Canvas(0, 0) = SourcePixel(0, 0)
    /\ Canvas(0, 0) /= Black
    /\ Canvas(0, new_height - 1) = SourcePixel(0, SourceH - 1)
    /\ Canvas(new_width - 1, 0) = Black

\* C10: when the left fill is about to start, the column the right fill
\* reads (left + w - 1) lies in the pasted area and is left as it is by the
\* left fill, the column the left fill reads (left) is left as it is by the
\* right fill, and the two fills give the same canvas in either order.
C10_LeftRightCommute ==
    pc = "left" =>
        LET c == extended_img
            l == FillLeftStep(c, img, margins)
            r == FillRightStep(c, img, margins)
            lc == LeftEdgeColumn(img, margins)
            rc == RightEdgeColumn(img, margins)
        IN  /\ left <= rc /\ rc < left + width
            /\ rc = left + width - 1
            /\ lc = left
            /\ \A y \in 0..(new_height - 1) :
                   /\ l.px[y][rc] = c.px[y][rc]
                   /\ r.px[y][lc] = c.px[y][lc]
            /\ FillRightStep(l, img, margins) = FillLeftStep(r, img, margins)

C10_Witness ==
    /\ pc = "left"
    /\ left > 0 /\ right > 0 /\ top > 0
    /\ FillLeftStep(extended_img, img, margins) /= extended_img
    /\ FillRightStep(extended_img, img, margins) /= extended_img
    /\ FillRightStep(FillLeftStep(extended_img, img, margins), img, margins)
           = FillLeftStep(FillRightStep(extended_img, img, margins),
                          img, margins)

\* The step-by-step run and the one-step call save the same canvas.
SaveMatchesExtend ==
    pc = "save" => extended_img = Extend(disk[image_path].im)

\* The input cannot be decoded: it is missing, not an image, or truncated.
Undecodable ==
    \/ image_path \notin DOMAIN disk
    \/ disk[image_path].kind /= "image"

C7_Step ==
    /\ pc' /= "propagated"
    /\ exc' /= "none" => pc' = "except"
    /\ pc = "except" => pc' = "done" /\ result' = "False" /\ exc' = "none"
    /\ Undecodable => outdir' = outdir /\ pc' \notin {"save"} /\ result' /= "True"
    /\ wfault[Name(image_path)] /= "none" => result' /= "True"
    /\ pc' = "done" => result' \in {"True", "False"}

\* C7: every failure to open, decode or save inside add_bleed_border ends
\* in the except clause and in the return value False, never in an
\* exception leaving the call; when the input cannot be decoded no step of
\* the call changes the output folder.
C7_FailuresBecomeFalse == [][C7_Step]_vars

\* A truncated RGB file: the canvas was allocated, the paste failed, the
\* file that was in the output folder is as it was.
C7_Witness ==
    /\ pc = "done"
    /\ result = "False"
    /\ image_path \in DOMAIN disk
    /\ disk[image_path].kind = "truncated"
    /\ extended_img /= NoImage
    /\ outdir = [n \in {Name(image_path)} |-> OldOutput]
    /\ stdout = <<<<"error", Name(image_path)>>>>

----------------------------------------------------------------------------
(* Properties of the batch.                                                *)

Lines(kind) == SelectSeq(stdout, LAMBDA e : e[1] = kind)
NamesOf(paths) == [k \in 1..Len(paths) |-> Name(paths[k])]

\* The call for the k-th path fails: the file is not a decodable image, or
\* its output cannot be written.
Fails(k) ==
    \/ disk[image_files[k]].kind /= "image"
    \/ wfault[Name(image_files[k])] /= "none"

\* C6: process_images attempts every path once, in list order, whatever
\* fails; at every point of the loop succeeded + failed is the number of
\* paths attempted, and at the end it is N, the failed count being the
\* number of calls that returned False (N - 1 and 1 with one corrupt file).
C6_BatchCounts ==
    /\ pc /= "propagated"
    /\ pc \in {"loop", "done"} =>
        /\ processed + failed = i
        /\ i <= Len(image_files)
        /\ [k \in 1..Len(Lines("progress")) |-> Lines("progress")[k][2]]
               = NamesOf(SubSeq(image_files, 1, i))
        /\ failed = Len(Lines("error"))
        /\ failed = Cardinality({k \in 1..i : Fails(k)})
    /\ pc = "done" =>
        /\ i = Len(image_files)
        /\ processed + failed = Len(image_files)
        /\ Cardinality({k \in 1..Len(image_files) : Fails(k)}) = 1
               => processed = Len(image_files) - 1 /\ failed = 1

\* Two paths, the first corrupt: the second is still processed.
C6_Witness ==
    /\ pc = "done"
    /\ Len(image_files) = 2
    /\ disk[image_files[1]].kind = "invalid"
    /\ processed = 1 /\ failed = 1
    /\ stdout = <<<<"progress", Name(image_files[1])>>,
                  <<"error", Name(image_files[1])>>,
                  <<"progress", Name(image_files[2])>>>>

\* What the call for `path` alone, into an empty output folder, writes.
Alone(path) == AddBleedBorder(path, disk, NoFiles, wfault)

\* C8: after the batch, the output file of every input that was processed
\* successfully is the one that input gives when processed alone.
C8_OutputsIndependent ==
    pc = "done" =>
        \A k \in 1..Len(image_files) :
            Alone(image_files[k]).result = "True" =>
                /\ Name(image_files[k]) \in DOMAIN outdir
                /\ outdir[Name(image_files[k])]
                       = Alone(image_files[k]).outdir[Name(image_files[k])]

----------------------------------------------------------------------------
(* The whole canvas.                                                       *)

\* v limited to lo..hi.
Clamp(v, lo, hi) == IF v < lo THEN lo ELSE IF v > hi THEN hi ELSE v

\* C11: in the final canvas no pixel is left as Image.new made it: every
\* pixel (x, y) of the w+left+right by h+top+bottom canvas holds
\* source(clamp(x - left, 0, w-1), clamp(y - top, 0, h-1)), also for the
\* sizes whose margins are 0 and whose fills are skipped.
C11_NoResidualPixel ==
    pc = "save" =>
        /\ DOMAIN extended_img.px = 0..(SourceH + top + bottom - 1)
        /\ \A y \in 0..(SourceH + top + bottom - 1) :
               /\ DOMAIN extended_img.px[y] = 0..(SourceW + left + right - 1)
               /\ \A x \in 0..(SourceW + left + right - 1) :
                      Canvas(x, y) =
                          SourcePixel(Clamp(x - left, 0, SourceW - 1),
                                      Clamp(y - top, 0, SourceH - 1))

\* A canvas with margins on every side, of a source without a black pixel:
\* no pixel of the canvas is black.
C11_Witness ==
    /\ pc = "save"
    /\ top = 2 /\ bottom = 2 /\ left = 2 /\ right = 2
    /\ \A y \in 0..(SourceH - 1) : \A x \in 0..(SourceW - 1) :
           SourcePixel(x, y) /= Black
    /\ \A y \in 0..(new_height - 1) : \A x \in 0..(new_width - 1) :
           Canvas(x, y) /= Black
    /\ Canvas(new_width - 1, new_height - 1)
           = SourcePixel(SourceW - 1, SourceH - 1)

\* The source is loaded and converted, and the canvas not yet saved.
Processing == pc \in {"new", "paste", "top", "bottom", "left", "right", "save"}

C12_Step ==
    Processing =>
        /\ img' = img
        /\ disk' = disk
        /\ img'.mode = "RGB"
        /\ img'.size = <<SourceW, SourceH>>
        /\ \A y \in 0..(SourceH - 1) : \A x \in 0..(SourceW - 1) :
               img'.px[y][x] = SourcePixel(x, y)
        /\ pc \in {"paste", "top", "bottom", "left", "right"} =>
               /\ outdir' = outdir
               /\ <<width, height, top, bottom, left, right>>'
                      = <<width, height, top, bottom, left, right>>
               /\ extended_img'.size = extended_img.size

\* C12: from the conversion to the save, no step of add_bleed_border changes
\* the converted source: its pixels, mode and size stay those of the
\* conversion of the file, the file itself is not touched, and the paste
\* and the strip fills change nothing but the pixels of the canvas.
C12_SourceImmutable == [][C12_Step]_vars

\* A file with an alpha channel, converted, extended and saved: the working
\* copy still is the conversion of the file.
C12_Witness ==
    /\ pc = "done"
    /\ result = "True"
    /\ disk[image_path].im.mode = "RGBA"
    /\ top > 0 /\ left > 0
    /\ img = ConvertRGB(disk[image_path].im)
    /\ img.size = <<width, height>>
    /\ extended_img.size /= img.size
    /\ outdir[Name(image_path)].im = extended_img

====
